---- MODULE Spec2Model ----
(***************************************************************************)
(* Model of ldo_delegate_vp: the pipeline of src/src/main.rs (parameter    *)
(* validation, paginated voter enumeration, order-preserving               *)
(* deduplication, bounded-concurrency chunked power lookups, ranking) and  *)
(* the helpers of src/src/lib.rs it uses.                                  *)
(*                                                                         *)
(* Addresses are the integers 1..NumAddr; their integer order stands for   *)
(* the byte-wise order of the 20-byte addresses.  U256 is scaled down to   *)
(* AmountBits bits, arithmetic on it wraps modulo 2^AmountBits.            *)
(***************************************************************************)
EXTENDS Integers, Sequences, FiniteSets, TLC

\* ---------------------------------------------------------------- bounds
NumAddr == 3
MaxPageSize == 2
MaxChunkSize == 2
MaxConcurrency == 2
MaxVoters == 2
AmountBits == 24
MaxSeqLen == 5
MaxDecimals == 8
MaxUrlLen == 5

\* the delegate queried: an address with addresses below and above it
DelegateAddress == 2

Addresses == 1..NumAddr
U256Modulus == 2 ^ AmountBits
U256Max == U256Modulus - 1
\* amounts the power collaborator answers with: zero, a small amount that
\* ties with itself, and the largest Amount
PowerValues == {0, 1, U256Max}

VARIABLES
    pc,                 \* position of main
    page_size,          \* args.page_size
    chunk_size,         \* args.chunk_size
    concurrency,        \* args.concurrency
    delegate_address,   \* args.delegate_address
    offset,             \* offset of the next getDelegatedVoters call
    delegated_voters,   \* voters accumulated by the enumeration loop
    page_requests,      \* log: (offset, limit) of the getDelegatedVoters calls
    pages,              \* log: pages returned by getDelegatedVoters
    addresses,          \* deduplicated address list
    next_chunk,         \* index of the next chunk the stream will yield
    in_flight,          \* chunk indices in the buffer_unordered queue
    requests,           \* log: chunks sent to getVotingPowerMultiple*
    completed,          \* log: chunk responses in completion order
    voting_power_map,   \* (address, power) pairs accumulated
    with_power,         \* active entries
    without_power,      \* inactive entries
    total_voting_power, \* sum of the active amounts
    error,              \* the error main returned with
    lib_fn,             \* the function of lib.rs called on its own
    lib_args,           \* its arguments
    lib_ret             \* its result

vars == <<pc, page_size, chunk_size, concurrency, delegate_address, offset,
          delegated_voters, page_requests, pages, addresses, next_chunk,
          in_flight, requests, completed, voting_power_map, with_power,
          without_power, total_voting_power, error, lib_fn, lib_args,
          lib_ret>>

enumVars == <<offset, delegated_voters, page_requests, pages>>
fetchVars == <<addresses, next_chunk, in_flight, requests, completed,
               voting_power_map>>
rankVars == <<with_power, without_power, total_voting_power>>
argVars == <<page_size, chunk_size, concurrency, delegate_address>>
libVars == <<lib_fn, lib_args, lib_ret>>

\* ------------------------------------------------------------ sequences
Range(s) == {s[i] : i \in 1..Len(s)}

SeqsUpTo(S, n) == UNION {[1..k -> S] : k \in 0..n}

SeqsOfLen(S, n) == [1..n -> S]

RECURSIVE Flatten(_)
Flatten(ss) == IF ss = <<>> THEN <<>> ELSE Head(ss) \o Flatten(Tail(ss))

Min(a, b) == IF a < b THEN a ELSE b

\* ------------------------------------------------------------- lib.rs
\* mutant: no deduplication
KeepAll(xs) == xs

\* mutant: Vec::dedup, only a repetition of the previous address is dropped
RECURSIVE dedup_adjacent(_)
dedup_adjacent(xs) ==
    IF Len(xs) <= 1 THEN xs
    ELSE IF xs[1] = xs[2] THEN dedup_adjacent(Tail(xs))
         ELSE <<xs[1]>> \o dedup_adjacent(Tail(xs))

\* mutant: deduplication through an ordered set, the first-seen order is lost
RECURSIVE SortedSeq(_)
SortedSeq(S) ==
    IF S = {} THEN <<>>
    ELSE LET m == CHOOSE x \in S : \A y \in S : x <= y
         IN  <<m>> \o SortedSeq(S \ {m})

unique_sorted(xs) == SortedSeq(Range(xs))

\* unique_preserve_order: one pass, an address is pushed iff seen.insert
\* reported it as new
RECURSIVE UniqueLoop(_, _, _)
UniqueLoop(rest, seen, out) ==
    IF rest = <<>> THEN out
    ELSE IF Head(rest) \in seen
         THEN UniqueLoop(Tail(rest), seen, out)
         ELSE UniqueLoop(Tail(rest), seen \cup {Head(rest)},
                         Append(out, Head(rest)))

unique_preserve_order(xs) == UniqueLoop(xs, {}, <<>>)

\* a string is the sequence of its characters
DigitChars == <<"0", "1", "2", "3", "4", "5", "6", "7", "8", "9">>

\* Display of an unsigned integer: plain decimal, no leading zero
RECURSIVE to_string(_)
to_string(n) ==
    IF n < 10 THEN <<DigitChars[n + 1]>>
    ELSE to_string(n \div 10) \o <<DigitChars[(n % 10) + 1]>>

\* U256 multiplication inside pow wraps at the width of U256
WrappingMul(a, b) == (a * b) % U256Modulus

\* U256::pow
RECURSIVE pow(_, _)
pow(base, exp) ==
    IF exp = 0 THEN 1 ELSE WrappingMul(base, pow(base, exp - 1))

\* format!("{:0>width$}", ..): zeros on the left up to width characters
PadZeros(str, width) ==
    IF Len(str) >= width THEN str
    ELSE [i \in 1..(width - Len(str)) |-> "0"] \o str

\* str::trim_end_matches(c)
RECURSIVE trim_end_matches(_, _)
trim_end_matches(str, c) ==
    IF str # <<>> /\ str[Len(str)] = c
    THEN trim_end_matches(SubSeq(str, 1, Len(str) - 1), c)
    ELSE str

\* outcome of a call: not made yet, a value, or a panic
Pending == [state |-> "pending", out |-> <<>>]
Returned(out) == [state |-> "returned", out |-> out]
Panicked == [state |-> "panicked", out |-> <<>>]

\* format_units; `/` and `%` of U256 panic on a zero divisor
format_units(value, decimals) ==
    LET factor == pow(10 % U256Modulus, decimals) IN
    IF factor = 0 THEN Panicked
    ELSE LET whole == value \div factor
             fractional == value % factor
         IN  IF fractional = 0
             THEN Returned(to_string(whole))
             ELSE Returned(to_string(whole) \o <<".">> \o
                    trim_end_matches(
                        PadZeros(to_string(fractional), decimals), "0"))

\* add_thousand_separators; i of the source is i - 1 here
add_thousand_separators(str) ==
    Flatten([i \in 1..Len(str) |->
                IF i - 1 > 0 /\ (Len(str) - (i - 1)) % 3 = 0
                THEN <<",", str[i]>> ELSE <<str[i]>>])

\* format_units_human
format_units_human(value, decimals) ==
    LET factor == pow(10 % U256Modulus, decimals) IN
    IF factor = 0 THEN Panicked
    ELSE LET whole == value \div factor
             fractional == value % factor
             display_decimals ==
                 IF whole >= 10000 THEN 0
                 ELSE IF whole >= 100 THEN 2
                 ELSE IF whole >= 1 THEN 4
                 ELSE decimals
             whole_str == add_thousand_separators(to_string(whole))
         IN  IF fractional = 0 \/ display_decimals = 0
             THEN Returned(whole_str)
             ELSE LET fractional_str ==
                          PadZeros(to_string(fractional), decimals)
                      truncated ==
                          SubSeq(fractional_str, 1,
                                 Min(display_decimals, decimals))
                      trimmed == trim_end_matches(truncated, "0")
                  IN  IF trimmed = <<>>
                      THEN Returned(whole_str)
                      ELSE Returned(whole_str \o <<".">> \o trimmed)

\* the positions of the characters of `set` in str
Positions(str, set) == {i \in 1..Len(str) : str[i] \in set}

SetMin(S) == CHOOSE x \in S : \A y \in S : x <= y

SetMax(S) == CHOOSE x \in S : \A y \in S : x >= y

\* str.split(set).next(): the text before the first character of `set`
BeforeFirst(str, set) ==
    IF Positions(str, set) = {} THEN str
    ELSE SubSeq(str, 1, SetMin(Positions(str, set)) - 1)

\* str.rsplit_once('@').map(|(_, after)| after).unwrap_or(str)
AfterLastAt(str) ==
    IF Positions(str, {"@"}) = {} THEN str
    ELSE SubSeq(str, SetMax(Positions(str, {"@"})) + 1, Len(str))

\* the positions at which "://" starts in str
SchemeSeparators(str) ==
    {i \in 1..(Len(str) - 2) :
        str[i] = ":" /\ str[i + 1] = "/" /\ str[i + 2] = "/"}

\* the fallback of redact_rpc_url, taken when Url::parse fails or finds no
\* host
redact_fallback(url) ==
    LET base == BeforeFirst(url, {"?", "#"}) IN
    IF SchemeSeparators(base) # {}
    THEN LET at == SetMin(SchemeSeparators(base))
             scheme == SubSeq(base, 1, at - 1)
             rest == AfterLastAt(SubSeq(base, at + 3, Len(base)))
             host == BeforeFirst(rest, {"/"})
         IN  scheme \o <<":", "/", "/">> \o host
    ELSE BeforeFirst(AfterLastAt(base), {"/"})

\* ------------------------------------------------------------- main.rs
NoError == [kind |-> "None", got |-> 0, expected |-> 0]
InvalidParameter == [kind |-> "InvalidParameter", got |-> 0, expected |-> 0]
PageRpcFailed == [kind |-> "GetDelegatedVotersFailed", got |-> 0, expected |-> 0]
PowerRpcFailed == [kind |-> "GetVotingPowerFailed", got |-> 0, expected |-> 0]
LengthMismatch(g, e) == [kind |-> "LengthMismatch", got |-> g, expected |-> e]

\* mutant: a full page ends the enumeration too
PageBreakOnFull(voters, ps) == voters = <<>> \/ Len(voters) <= ps

\* the two break conditions of the enumeration loop
PageBreak(voters, ps) == voters = <<>> \/ Len(voters) < ps

\* mutant: chunks_exact, the shorter last chunk is left out
chunks_exact(s, n) ==
    [i \in 1..(Len(s) \div n) |-> SubSeq(s, (i - 1) * n + 1, i * n)]

\* slice::chunks: contiguous runs of n elements, the last one shorter
chunks(s, n) ==
    [i \in 1..((Len(s) + n - 1) \div n) |->
        SubSeq(s, (i - 1) * n + 1, Min(i * n, Len(s)))]

\* mutant: one slot of the queue is never used
CanAdmitBelow(queue, max) == Cardinality(queue) < max - 1

\* mutant: off-by-one admission
CanAdmitOneMore(queue, max) == Cardinality(queue) <= max

\* buffer_unordered pulls a new future only while the queue is below max
CanAdmit(queue, max) == Cardinality(queue) < max

\* mutant: only a short response is rejected
LengthAtLeast(balances, chunk) == Len(balances) >= Len(chunk)

\* anyhow::ensure!(balances.len() == chunk.len(), ..)
LengthOk(balances, chunk) == Len(balances) = Len(chunk)

\* mutant: the balances are taken from the back
ZipReversed(chunk, balances) ==
    [i \in 1..Min(Len(chunk), Len(balances)) |->
        <<chunk[i], balances[Len(balances) + 1 - i]>>]

\* chunk.into_iter().zip(balances.into_iter()).collect()
Zip(chunk, balances) ==
    [i \in 1..Min(Len(chunk), Len(balances)) |-> <<chunk[i], balances[i]>>]

\* mutant: the pairs are put in front
ExtendFront(map, pairs) == pairs \o map

\* voting_power_map.extend(pairs)
Extend(map, pairs) == map \o pairs

\* mutant: ascending by amount
BeforeAscending(a, b) == a[2] < b[2] \/ (a[2] = b[2] /\ a[1] < b[1])

\* mutant: no tie-break on the address
BeforeNoTieBreak(a, b) == a[2] > b[2]

\* the comparator of sort_by: b.1.cmp(&a.1).then_with(|| a.0.cmp(&b.0));
\* TRUE iff a is ordered strictly before b
Before(a, b) == a[2] > b[2] \/ (a[2] = b[2] /\ a[1] < b[1])

\* slice::sort_by is a stable sort: an element is placed after every
\* element already placed that is not ordered after it
RECURSIVE InsertSorted(_, _)
InsertSorted(sorted, e) ==
    IF sorted = <<>> THEN <<e>>
    ELSE IF Before(e, Head(sorted))
         THEN <<e>> \o sorted
         ELSE <<Head(sorted)>> \o InsertSorted(Tail(sorted), e)

RECURSIVE SortLoop(_, _)
SortLoop(rest, sorted) ==
    IF rest = <<>> THEN sorted
    ELSE SortLoop(Tail(rest), InsertSorted(sorted, Head(rest)))

sort_by(s) == SortLoop(s, <<>>)

IsActive(e) == e[2] # 0

IsInactive(e) == ~IsActive(e)

\* U256 addition (`offset += limit`, the Sum implementation) wraps at the
\* width of U256
WrappingAdd(a, b) == (a + b) % U256Modulus

\* mutant: the offset is not advanced
SameOffset(off, limit) == off

\* offset += limit
NextOffset(off, limit) == WrappingAdd(off, limit)

RECURSIVE SumPowers(_)
SumPowers(s) ==
    IF s = <<>> THEN 0
    ELSE WrappingAdd(s[Len(s)][2], SumPowers(SubSeq(s, 1, Len(s) - 1)))

\* ------------------------------------------------------------------ Init
Init ==
    /\ pc = "start"
    /\ page_size \in 0..MaxPageSize
    /\ chunk_size \in 0..MaxChunkSize
    /\ concurrency \in 0..MaxConcurrency
    /\ delegate_address = DelegateAddress
    /\ offset = 0
    /\ delegated_voters = <<>>
    /\ page_requests = <<>>
    /\ pages = <<>>
    /\ addresses = <<>>
    /\ next_chunk = 1
    /\ in_flight = {}
    /\ requests = <<>>
    /\ completed = <<>>
    /\ voting_power_map = <<>>
    /\ with_power = <<>>
    /\ without_power = <<>>
    /\ total_voting_power = 0
    /\ error = NoError
    /\ lib_fn = "none"
    /\ lib_args = <<>>
    /\ lib_ret = Pending

\* --------------------------------------------------------------- actions
\* mutant: the concurrency check is missing
ValidateNoConcurrencyCheck ==
    /\ pc = "start"
    /\ IF page_size = 0 \/ chunk_size = 0
       THEN /\ pc' = "failed"
            /\ error' = InvalidParameter
       ELSE /\ pc' = "enumerate"
            /\ error' = error
    /\ UNCHANGED <<libVars, argVars, enumVars, fetchVars, rankVars>>

\* the three bail! checks at the head of main
Validate ==
    /\ pc = "start"
    /\ IF page_size = 0 \/ chunk_size = 0 \/ concurrency = 0
       THEN /\ pc' = "failed"
            /\ error' = InvalidParameter
       ELSE /\ pc' = "enumerate"
            /\ error' = error
    /\ UNCHANGED <<libVars, argVars, enumVars, fetchVars, rankVars>>

\* contract.getDelegatedVoters(delegate, offset, limit).call()
IssuePage ==
    /\ pc = "enumerate"
    /\ page_requests' = Append(page_requests,
                            [offset |-> offset, limit |-> page_size])
    /\ pc' = "await_page"
    /\ UNCHANGED <<libVars, argVars, offset, delegated_voters, pages, fetchVars,
                   rankVars, error>>

\* mutant: a failed call is taken as the end of the data
PageErrSwallowed ==
    /\ addresses' = unique_preserve_order(
                        <<delegate_address>> \o delegated_voters)
    /\ pc' = "fetch"
    /\ UNCHANGED <<libVars, argVars, enumVars, next_chunk, in_flight, requests,
                   completed, voting_power_map, rankVars, error>>

\* the call failed: `?` returns the error from main
PageErr ==
    /\ pc' = "failed"
    /\ error' = PageRpcFailed
    /\ UNCHANGED <<libVars, argVars, enumVars, fetchVars, rankVars>>

\* the call returned a page: the rest of the loop body and, on break, the
\* deduplication and the construction of the chunk stream
PageOk(voters) ==
    /\ pages' = Append(pages, voters)
    /\ delegated_voters' = delegated_voters \o voters
    /\ IF PageBreak(voters, page_size)
       THEN /\ offset' = offset
            /\ addresses' = unique_preserve_order(
                                <<delegate_address>> \o delegated_voters')
            /\ pc' = "fetch"
       ELSE /\ offset' = NextOffset(offset, page_size)
            /\ addresses' = addresses
            /\ pc' = "enumerate"
    /\ UNCHANGED <<libVars, argVars, page_requests, next_chunk, in_flight, requests,
                   completed, voting_power_map, rankVars, error>>

\* pages the collaborator may answer with: at most `limit` voters, out of
\* the at most MaxVoters voters it holds for the delegate
PageAnswers ==
    SeqsUpTo(Addresses, Min(page_size, MaxVoters - Len(delegated_voters)))

PageReturn ==
    /\ pc = "await_page"
    /\ \/ PageErr
       \/ \E voters \in PageAnswers : PageOk(voters)

NumChunks == Len(chunks(addresses, chunk_size))

\* buffer_unordered takes the next chunk future from the stream
Dispatch ==
    /\ pc = "fetch"
    /\ next_chunk <= NumChunks
    /\ CanAdmit(in_flight, concurrency)
    /\ in_flight' = in_flight \cup {next_chunk}
    /\ requests' = Append(requests, chunks(addresses, chunk_size)[next_chunk])
    /\ next_chunk' = next_chunk + 1
    /\ UNCHANGED <<libVars, pc, argVars, enumVars, addresses, completed,
                   voting_power_map, rankVars, error>>

\* answers of the power collaborator to a chunk: one amount per address,
\* or a response one element short or one element long
PowerAnswers(chunk) ==
    SeqsOfLen(PowerValues, Len(chunk))
        \cup {[i \in 1..(Len(chunk) - 1) |-> 0],
              [i \in 1..(Len(chunk) + 1) |-> 0]}

\* the queue is polled only after it was filled up to max
QueuePolled ==
    ~(next_chunk <= NumChunks /\ CanAdmit(in_flight, concurrency))

\* mutant: a failed chunk is skipped and the loop goes on
CompleteErrIgnored(i) ==
    /\ completed' = Append(completed,
           [index |-> i, chunk |-> chunks(addresses, chunk_size)[i],
            ok |-> FALSE, balances |-> <<>>])
    /\ in_flight' = in_flight \ {i}
    /\ UNCHANGED <<libVars, pc, error, argVars, enumVars, addresses, next_chunk,
                   requests, voting_power_map, rankVars>>

\* a chunk future ends in an RPC error: `result?` returns it from main and
\* the stream with its remaining futures is dropped
CompleteErr(i) ==
    /\ completed' = Append(completed,
           [index |-> i, chunk |-> chunks(addresses, chunk_size)[i],
            ok |-> FALSE, balances |-> <<>>])
    /\ pc' = "failed"
    /\ error' = PowerRpcFailed
    /\ in_flight' = {}
    /\ UNCHANGED <<libVars, argVars, enumVars, addresses, next_chunk, requests,
                   voting_power_map, rankVars>>

\* a chunk future got its balances
CompleteOk(i, balances) ==
    LET chunk == chunks(addresses, chunk_size)[i] IN
    /\ completed' = Append(completed,
           [index |-> i, chunk |-> chunk, ok |-> TRUE, balances |-> balances])
    /\ IF LengthOk(balances, chunk)
       THEN /\ voting_power_map' = Extend(voting_power_map, Zip(chunk, balances))
            /\ in_flight' = in_flight \ {i}
            /\ pc' = pc
            /\ error' = error
       ELSE /\ voting_power_map' = voting_power_map
            /\ in_flight' = {}
            /\ pc' = "failed"
            /\ error' = LengthMismatch(Len(balances), Len(chunk))
    /\ UNCHANGED <<libVars, argVars, enumVars, addresses, next_chunk, requests,
                   rankVars>>

Complete ==
    /\ pc = "fetch"
    /\ QueuePolled
    /\ \E i \in in_flight :
          \/ CompleteErr(i)
          \/ \E balances \in PowerAnswers(chunks(addresses, chunk_size)[i]) :
                CompleteOk(i, balances)

\* the stream is exhausted: sort, partition and sum
Rank ==
    /\ pc = "fetch"
    /\ next_chunk > NumChunks
    /\ in_flight = {}
    /\ voting_power_map' = sort_by(voting_power_map)
    /\ with_power' = SelectSeq(voting_power_map', IsActive)
    /\ without_power' = SelectSeq(voting_power_map', IsInactive)
    /\ total_voting_power' = SumPowers(with_power')
    /\ pc' = "done"
    /\ UNCHANGED <<libVars, argVars, enumVars, addresses, next_chunk, in_flight,
                   requests, completed, error>>

Next ==
    \/ Validate
    \/ IssuePage
    \/ PageReturn
    \/ Dispatch
    \/ Complete
    \/ Rank

Spec == Init /\ [][Next]_vars

\* ------------------------------------------- the functions of lib.rs alone
\* addresses, amounts and strings the functions are called with
UniqueInputs == SeqsUpTo(Addresses, MaxSeqLen)

FormatValues ==
    {0, 1, 5, 10, 15, 100, 105, 1000, 1005, 1050, 9999, 10000, 12345, 99999,
     100000, 123456, 1000000, 1234567, 10000000, 12345678, U256Max}

\* decimals up to MaxDecimals, and one as large as the width of U256
FormatDecimals == (0..MaxDecimals) \cup {AmountBits}

UrlChars == {"h", "1", ":", "/", "@", "?", "#"}

\* url starts with a scheme (a letter, then letters or digits, then ':')
\* that is followed by "//": only such a string can be parsed with a host
HasSchemeAndAuthority(url) ==
    \E i \in 2..(Len(url) - 2) :
        /\ url[1] = "h"
        /\ \A j \in 1..(i - 1) : url[j] \in {"h", "1"}
        /\ url[i] = ":" /\ url[i + 1] = "/" /\ url[i + 2] = "/"

FallbackInputs ==
    {url \in SeqsUpTo(UrlChars, MaxUrlLen) : ~HasSchemeAndAuthority(url)}

LibInit ==
    /\ pc = "lib"
    /\ page_size = 0
    /\ chunk_size = 0
    /\ concurrency = 0
    /\ delegate_address = DelegateAddress
    /\ offset = 0
    /\ delegated_voters = <<>>
    /\ page_requests = <<>>
    /\ pages = <<>>
    /\ addresses = <<>>
    /\ next_chunk = 1
    /\ in_flight = {}
    /\ requests = <<>>
    /\ completed = <<>>
    /\ voting_power_map = <<>>
    /\ with_power = <<>>
    /\ without_power = <<>>
    /\ total_voting_power = 0
    /\ error = NoError
    /\ \/ lib_fn = "unique_preserve_order" /\ lib_args \in UniqueInputs
       \/ /\ lib_fn \in {"format_units", "format_units_human"}
          /\ lib_args \in FormatValues \X FormatDecimals
       \/ lib_fn = "redact_rpc_url" /\ lib_args \in FallbackInputs
    /\ lib_ret = Pending

pipelineVars == <<pc, argVars, enumVars, fetchVars, rankVars, error>>

CallUniquePreserveOrder ==
    /\ lib_fn = "unique_preserve_order"
    /\ lib_ret = Pending
    /\ lib_ret' = Returned(unique_preserve_order(lib_args))
    /\ UNCHANGED <<pipelineVars, lib_fn, lib_args>>

CallFormatUnits ==
    /\ lib_fn = "format_units"
    /\ lib_ret = Pending
    /\ lib_ret' = format_units(lib_args[1], lib_args[2])
    /\ UNCHANGED <<pipelineVars, lib_fn, lib_args>>

CallFormatUnitsHuman ==
    /\ lib_fn = "format_units_human"
    /\ lib_ret = Pending
    /\ lib_ret' = format_units_human(lib_args[1], lib_args[2])
    /\ UNCHANGED <<pipelineVars, lib_fn, lib_args>>

CallRedactRpcUrl ==
    /\ lib_fn = "redact_rpc_url"
    /\ lib_ret = Pending
    /\ lib_ret' = Returned(redact_fallback(lib_args))
    /\ UNCHANGED <<pipelineVars, lib_fn, lib_args>>

LibNext ==
    \/ CallUniquePreserveOrder
    \/ CallFormatUnits
    \/ CallFormatUnitsHuman
    \/ CallRedactRpcUrl

LibSpec == LibInit /\ [][LibNext]_vars

\* the runtime keeps polling main and every collaborator call returns: a step
\* that stays possible is eventually taken
FairSpec == Spec /\ WF_vars(Next)

\* ------------------------------------------------- views used by the claims
\* the entries a logged chunk response contributes
EntriesOf(e) == [j \in 1..Len(e.chunk) |-> <<e.chunk[j], e.balances[j]>>]

\* the logged response to chunk i
ByIndex(i) == CHOOSE e \in Range(completed) : e.index = i

\* main has left the power-fetch loop normally and has not sorted yet
FetchFinished == pc = "fetch" /\ next_chunk > NumChunks /\ in_flight = {}

EntriesInChunkOrder ==
    Flatten([i \in 1..NumChunks |-> EntriesOf(ByIndex(i))])

EntriesInCompletionOrder ==
    Flatten([k \in 1..Len(completed) |-> EntriesOf(completed[k])])

OutOfOrderCompletion ==
    \E k \in 1..(Len(completed) - 1) : completed[k].index > completed[k + 1].index

\* the enumeration loop was left through one of its two breaks
EnumerationStopped ==
    /\ pc \notin {"start", "enumerate", "await_page"}
    /\ error.kind \notin {"InvalidParameter", "GetDelegatedVotersFailed"}

NoRanking ==
    /\ pc # "done"
    /\ with_power = <<>>
    /\ without_power = <<>>
    /\ total_voting_power = 0

\* ------------------------------------------------------------------- C1
\* C1 (as stated): when the power-fetch loop ends, voting_power_map (not yet
\* sorted) is the concatenation of the chunks' entries in chunk-index order,
\* whatever the order in which the chunk requests completed.
C1_ChunkIndexOrder ==
    FetchFinished => voting_power_map = EntriesInChunkOrder

\* C1 (amended): while the power-fetch loop runs and when it ends,
\* voting_power_map is the concatenation of the chunks' entries in the order
\* the chunk requests completed; when the loop ends it holds exactly the
\* entries of the chunk-index-order concatenation, and equals that
\* concatenation when concurrency = 1.
C1_CompletionOrder ==
    pc = "fetch" =>
        /\ voting_power_map = EntriesInCompletionOrder
        /\ FetchFinished =>
              /\ Len(voting_power_map) = Len(EntriesInChunkOrder)
              /\ Range(voting_power_map) = Range(EntriesInChunkOrder)
              /\ concurrency = 1 => voting_power_map = EntriesInChunkOrder

C1_Witness ==
    /\ FetchFinished
    /\ OutOfOrderCompletion
    /\ voting_power_map # EntriesInChunkOrder

\* ------------------------------------------------------------------- C2
\* C2: enumeration goes on exactly as long as every page returned has
\* page_size voters; it stops after the call whose page is the first shorter
\* than page_size, with as many calls as pages, and the accumulated voters
\* are the concatenation of the pages returned; an empty first page gives no
\* voters after one call.
C2_EnumerationStops ==
    /\ pc \in {"enumerate", "await_page"} =>
          /\ \A j \in 1..Len(pages) : Len(pages[j]) = page_size
          /\ delegated_voters = Flatten(pages)
    /\ EnumerationStopped =>
          /\ Len(pages) >= 1
          /\ \A j \in 1..(Len(pages) - 1) : Len(pages[j]) = page_size
          /\ Len(pages[Len(pages)]) < page_size
          /\ Len(page_requests) = Len(pages)
          /\ delegated_voters = Flatten(pages)
          /\ pages[1] = <<>> =>
                delegated_voters = <<>> /\ Len(page_requests) = 1

C2_Witness ==
    /\ EnumerationStopped
    /\ Len(pages) >= 3
    /\ delegated_voters # <<>>

\* ------------------------------------------------------------------- C3
\* C3: the chunk requests dispatched and not yet completed are never more
\* than `concurrency`, and a chunk request is admitted only in a state with
\* fewer than `concurrency` of them outstanding.
C3_ConcurrencyCap ==
    /\ [](/\ Cardinality(in_flight) <= concurrency
          /\ pc = "fetch" =>
                Cardinality(in_flight) = Len(requests) - Len(completed))
    /\ [][Len(requests') > Len(requests) =>
             Len(requests) - Len(completed) < concurrency]_vars

C3_Witness ==
    /\ pc = "fetch"
    /\ concurrency = 2
    /\ Cardinality(in_flight) = concurrency
    /\ next_chunk <= NumChunks

\* ------------------------------------------------------------------- C4
\* C4: a chunk response whose length differs from the chunk's address count
\* is the last response handled: the run has failed with a length-mismatch
\* error carrying the observed and the expected count, and there is no
\* ranking, whatever was accumulated from other chunks.
C4_LengthMismatchAborts ==
    \A k \in 1..Len(completed) :
        (completed[k].ok /\ Len(completed[k].balances) # Len(completed[k].chunk))
        => /\ k = Len(completed)
           /\ pc = "failed"
           /\ error = LengthMismatch(Len(completed[k].balances),
                                     Len(completed[k].chunk))
           /\ NoRanking

C4_Witness ==
    /\ error.kind = "LengthMismatch"
    /\ error.got > error.expected
    /\ voting_power_map # <<>>

\* ------------------------------------------------------------------- C5
\* C5: in a run that reaches the ranking, before and after the sort, there
\* is exactly one entry for each address of the deduplicated voter set and
\* no entry for another address; the active and the inactive list together
\* have as many entries as the deduplicated voter set.
VoterSet == {delegate_address} \cup Range(Flatten(pages))

C5_OneEntryPerAddress ==
    (FetchFinished \/ pc = "done") =>
        /\ Len(voting_power_map) = Cardinality(VoterSet)
        /\ \A a \in VoterSet :
              Cardinality({i \in 1..Len(voting_power_map) :
                              voting_power_map[i][1] = a}) = 1
        /\ \A i \in 1..Len(voting_power_map) :
              voting_power_map[i][1] \in VoterSet
        /\ pc = "done" =>
              Len(with_power) + Len(without_power) = Cardinality(VoterSet)

C5_Witness ==
    /\ pc = "done"
    /\ OutOfOrderCompletion
    /\ Len(delegated_voters) + 1 > Cardinality(VoterSet)

\* ------------------------------------------------------------------- C6
\* C6: the ranking lists every entry fetched exactly once, the active list
\* (amount > 0) followed by the inactive list (amount = 0) being ordered by
\* amount descending and, among equal amounts, by address ascending; the
\* entries (A,5),(B,5),(C,0),(D,10) give active D,A,B and inactive C.
RankedBefore(a, b) == a[2] > b[2] \/ (a[2] = b[2] /\ a[1] < b[1])

C6_RankingOrder ==
    /\ pc = "done" =>
          LET all == with_power \o without_power IN
          /\ \A i, j \in 1..Len(all) : i < j => RankedBefore(all[i], all[j])
          /\ \A i \in 1..Len(with_power) : with_power[i][2] > 0
          /\ \A i \in 1..Len(without_power) : without_power[i][2] = 0
          /\ Len(all) = Len(EntriesInCompletionOrder)
          /\ Range(all) = Range(EntriesInCompletionOrder)
          /\ voting_power_map = all
    /\ LET r == sort_by(<<<<1, 5>>, <<2, 5>>, <<3, 0>>, <<4, 10>>>>) IN
          /\ SelectSeq(r, IsActive) = <<<<4, 10>>, <<1, 5>>, <<2, 5>>>>
          /\ SelectSeq(r, IsInactive) = <<<<3, 0>>>>

C6_Witness ==
    /\ pc = "done"
    /\ OutOfOrderCompletion
    /\ without_power # <<>>
    /\ \E i \in 1..(Len(with_power) - 1) : with_power[i][2] = with_power[i + 1][2]

\* ------------------------------------------------------------------- C7
RECURSIVE ExactSum(_)
ExactSum(s) == IF s = <<>> THEN 0 ELSE Head(s)[2] + ExactSum(Tail(s))

\* C7: totalPower is the exact sum of the active amounts, also when that sum
\* is larger than the largest Amount.
C7_ExactTotal ==
    pc = "done" => total_voting_power = ExactSum(with_power)

\* ------------------------------------------------------------------- C8
\* the inputs of a run: the delegate, the pages returned and the power
\* returned for each address
InputAddresses == unique_preserve_order(<<delegate_address>> \o Flatten(pages))

InputPower(a) ==
    LET e == CHOOSE r \in Range(completed) : a \in Range(r.chunk)
        j == CHOOSE n \in 1..Len(e.chunk) : e.chunk[n] = a
    IN  e.balances[j]

InputEntries ==
    [i \in 1..Len(InputAddresses) |->
        <<InputAddresses[i], InputPower(InputAddresses[i])>>]

\* C8: the active list, the inactive list and totalPower of a finished run
\* are determined by the delegate, the page responses and the per-address
\* power responses alone: they are those of ranking the entries taken in
\* address order, for every completion order and every concurrency.
C8_Reproducible ==
    pc = "done" =>
        LET sorted == sort_by(InputEntries) IN
        /\ with_power = SelectSeq(sorted, IsActive)
        /\ without_power = SelectSeq(sorted, IsInactive)
        /\ total_voting_power = SumPowers(SelectSeq(sorted, IsActive))

C8_Witness ==
    /\ pc = "done"
    /\ OutOfOrderCompletion
    /\ concurrency = 2
    /\ \E i \in 1..(Len(voting_power_map) - 1) :
          voting_power_map[i][2] = voting_power_map[i + 1][2]

\* ------------------------------------------------------------------- C9
CeilDiv(n, c) == IF n % c = 0 THEN n \div c ELSE (n \div c) + 1

\* C9: the chunk requests issued are, in order, contiguous runs of the
\* address list with no address requested twice; a run in which no chunk
\* request fails issues exactly ceil(N/C) of them, each of at most C and at
\* least one address, all but the last of exactly C, and together they are
\* the address list.
C9_ChunkRequests ==
    pc \in {"fetch", "done", "failed"} /\ chunk_size >= 1 =>
        /\ \A k \in 1..Len(requests) :
              Len(requests[k]) >= 1 /\ Len(requests[k]) <= chunk_size
        /\ \A k \in 1..(Len(requests) - 1) : Len(requests[k]) = chunk_size
        /\ Len(Flatten(requests)) <= Len(addresses)
        /\ Flatten(requests) = SubSeq(addresses, 1, Len(Flatten(requests)))
        /\ pc = "done" =>
              /\ Len(requests) = CeilDiv(Len(addresses), chunk_size)
              /\ Flatten(requests) = addresses

C9_Witness ==
    /\ pc = "done"
    /\ chunk_size = 2
    /\ Len(addresses) = 3

\* ------------------------------------------------------------------ C10
\* a getDelegatedVoters call was issued and ended without returning a page
PageCallFailed == pc # "await_page" /\ Len(page_requests) = Len(pages) + 1

\* C10: once a getDelegatedVoters call has failed the run is failed with
\* that error, the voters accumulated so far were not deduplicated, no power
\* lookup was issued, there is no ranking, and no request is issued later.
C10_PageFailureAborts ==
    /\ [](PageCallFailed =>
             /\ pc = "failed"
             /\ error = PageRpcFailed
             /\ addresses = <<>>
             /\ requests = <<>>
             /\ voting_power_map = <<>>
             /\ NoRanking)
    /\ [][PageCallFailed =>
             page_requests' = page_requests /\ requests' = requests]_vars

C10_Witness ==
    /\ PageCallFailed
    /\ delegated_voters # <<>>

\* ------------------------------------------------------------------ C11
ZeroParameter == page_size = 0 \/ chunk_size = 0 \/ concurrency = 0

\* C11: when page_size, chunk_size or concurrency is 0 no getDelegatedVoters
\* call and no power lookup is ever issued, and the run, once it has left its
\* start, has failed with the invalid-parameter error.
C11_InvalidParameterFirst ==
    ZeroParameter =>
        /\ page_requests = <<>>
        /\ pages = <<>>
        /\ requests = <<>>
        /\ completed = <<>>
        /\ pc \in {"start", "failed"}
        /\ pc = "failed" => error = InvalidParameter

C11_Witness ==
    /\ pc = "failed"
    /\ page_size >= 1
    /\ chunk_size >= 1
    /\ concurrency = 0

\* ------------------------------------------------------------------ C12
\* the index of the first occurrence of a in s
FirstIndex(s, a) ==
    CHOOSE i \in 1..Len(s) : s[i] = a /\ \A j \in 1..(i - 1) : s[j] # a

\* C12: the address list built when the enumeration has stopped is not
\* empty, starts with the delegate, has no address twice, holds exactly the
\* delegate and the voters of the pages, in the order of their first
\* occurrence in the delegate followed by the pages.
C12_AddressList ==
    EnumerationStopped =>
        LET input == <<delegate_address>> \o Flatten(pages) IN
        /\ addresses # <<>>
        /\ addresses[1] = delegate_address
        /\ \A i, j \in 1..Len(addresses) :
              i # j => addresses[i] # addresses[j]
        /\ Range(addresses) = Range(input)
        /\ \A i, j \in 1..Len(addresses) :
              i < j => FirstIndex(input, addresses[i])
                          < FirstIndex(input, addresses[j])

C12_Witness ==
    /\ EnumerationStopped
    /\ delegate_address \in Range(Flatten(pages))
    /\ Len(addresses) = 2
    /\ addresses[2] < addresses[1]

\* ------------------------------------------------------------------ C17
\* C17: every entry accumulated, and every entry of the active and the
\* inactive list, is the address at some index of a chunk request paired
\* with the amount at the same index of the response to that request.
PairedInSomeChunk(entry) ==
    \E k \in 1..Len(completed) :
        /\ completed[k].ok
        /\ requests[completed[k].index] = completed[k].chunk
        /\ \E i \in 1..Len(completed[k].chunk) :
              /\ i <= Len(completed[k].balances)
              /\ entry = <<completed[k].chunk[i], completed[k].balances[i]>>

C17_PairingIntegrity ==
    /\ \A n \in 1..Len(voting_power_map) : PairedInSomeChunk(voting_power_map[n])
    /\ \A n \in 1..Len(with_power) : PairedInSomeChunk(with_power[n])
    /\ \A n \in 1..Len(without_power) : PairedInSomeChunk(without_power[n])

C17_Witness ==
    /\ pc = "done"
    /\ OutOfOrderCompletion
    /\ \E k \in 1..Len(completed) :
          /\ Len(completed[k].chunk) = 2
          /\ completed[k].balances[1] # completed[k].balances[2]

\* ------------------------------------------------------------------ C18
\* C18: the i-th getDelegatedVoters call has offset (i-1)*page_size and limit
\* page_size, so no offset is requested twice; at most one call is
\* outstanding, and only while main waits for it; a power lookup is issued
\* only after a page shorter than page_size has ended the enumeration.
C18_SequentialPages ==
    /\ \A i \in 1..Len(page_requests) :
          /\ page_requests[i].offset = (i - 1) * page_size
          /\ page_requests[i].limit = page_size
    /\ \A i, j \in 1..Len(page_requests) :
          i # j => page_requests[i].offset # page_requests[j].offset
    /\ Len(page_requests) - Len(pages) \in {0, 1}
    /\ pc = "await_page" => Len(page_requests) = Len(pages) + 1
    /\ pc \in {"enumerate", "fetch", "done"} => Len(page_requests) = Len(pages)
    /\ requests # <<>> =>
          /\ Len(pages) >= 1
          /\ Len(page_requests) = Len(pages)
          /\ Len(pages[Len(pages)]) < page_size

C18_Witness ==
    /\ Len(page_requests) >= 2
    /\ page_size = 2
    /\ requests # <<>>

\* ------------------------------------------------------------------ C19
ChunkFailed(e) == ~e.ok \/ Len(e.balances) # Len(e.chunk)

\* C19: a failed chunk request (collaborator error or length mismatch) is the
\* last one handled: the run is failed with its error, no chunk future is
\* left, the entries accumulated are those of the chunks completed before,
\* there is no ranking; and from a failed run no chunk request is dispatched,
\* no response is handled and the failed state is never left.
C19_FirstFailureAborts ==
    /\ [](\A k \in 1..Len(completed) :
             ChunkFailed(completed[k]) =>
                /\ k = Len(completed)
                /\ pc = "failed"
                /\ error.kind = (IF completed[k].ok THEN "LengthMismatch"
                                 ELSE "GetVotingPowerFailed")
                /\ in_flight = {}
                /\ voting_power_map =
                      Flatten([n \in 1..(k - 1) |-> EntriesOf(completed[n])])
                /\ NoRanking)
    /\ [][pc = "failed" =>
             /\ pc' = "failed"
             /\ requests' = requests
             /\ completed' = completed
             /\ voting_power_map' = voting_power_map]_vars

C19_Witness ==
    /\ error.kind = "GetVotingPowerFailed"
    /\ Len(requests) > Len(completed)
    /\ voting_power_map # <<>>

\* ------------------------------------------------------------------ C20
\* C20: with the three parameters >= 1 the run eventually ends, with a
\* ranking or failed; it ends with a ranking only after every chunk was
\* dispatched and answered; and the enumeration loop is left towards the
\* power lookups only after a page shorter than page_size.
C20_Termination ==
    /\ (page_size >= 1 /\ chunk_size >= 1 /\ concurrency >= 1)
          => <>(pc \in {"done", "failed"})
    /\ [](pc = "done" =>
             /\ Len(requests) = NumChunks
             /\ Len(completed) = NumChunks
             /\ \A i \in 1..NumChunks :
                   \E k \in 1..Len(completed) :
                       completed[k].index = i /\ ~ChunkFailed(completed[k]))
    /\ [](EnumerationStopped =>
             \E j \in 1..Len(pages) : Len(pages[j]) < page_size)

C20_Witness ==
    /\ pc = "done"
    /\ Len(requests) > concurrency
    /\ Len(pages) >= 2

\* ------------------------------------------------------------------ C13
\* C13: the result of unique_preserve_order has every distinct element of
\* its input exactly once, in the order of first occurrence; applying the
\* function to its result changes nothing; an empty input gives an empty
\* result, an input of equal elements a singleton, an input without
\* repetition itself.
C13_Dedupe ==
    (lib_fn = "unique_preserve_order" /\ lib_ret.state # "pending") =>
        LET xs == lib_args
            out == lib_ret.out
        IN  /\ lib_ret.state = "returned"
            /\ Range(out) = Range(xs)
            /\ \A i, j \in 1..Len(out) : i # j => out[i] # out[j]
            /\ \A i, j \in 1..Len(out) :
                  i < j => FirstIndex(xs, out[i]) < FirstIndex(xs, out[j])
            /\ unique_preserve_order(out) = out
            /\ xs = <<>> => out = <<>>
            /\ (xs # <<>> /\ Cardinality(Range(xs)) = 1) => out = <<xs[1]>>
            /\ Cardinality(Range(xs)) = Len(xs) => out = xs
            /\ xs = <<1, 2, 1, 3, 2>> => out = <<1, 2, 3>>

C13_Witness ==
    /\ lib_fn = "unique_preserve_order"
    /\ lib_ret.state = "returned"
    /\ lib_args = <<1, 2, 1, 3, 2>>
    /\ lib_ret.out = <<1, 2, 3>>

\* ------------------------------------------------------------------ C14
\* the digits of value / 10^decimals and of value % 10^decimals, the latter
\* on exactly `decimals` digits, taken from the decimal digits of value
ExactWholeDigits(value, decimals) ==
    LET padded == PadZeros(to_string(value), decimals + 1)
    IN  SubSeq(padded, 1, Len(padded) - decimals)

ExactFractionDigits(value, decimals) ==
    LET padded == PadZeros(to_string(value), decimals + 1)
    IN  SubSeq(padded, Len(padded) - decimals + 1, Len(padded))

ExactUnits(value, decimals) ==
    LET fraction == trim_end_matches(ExactFractionDigits(value, decimals), "0")
    IN  IF fraction = <<>> THEN ExactWholeDigits(value, decimals)
        ELSE ExactWholeDigits(value, decimals) \o <<".">> \o fraction

\* 10^decimals is an Amount: it has no more digits than the largest Amount
PowerOfTenFits(decimals) == decimals + 1 <= Len(to_string(U256Max))

\* C14: for every Amount and every decimals, format_units returns the
\* decimal of value / 10^decimals when value % 10^decimals is 0, and
\* otherwise that decimal, '.', and value % 10^decimals on `decimals` digits
\* without its trailing zeros, quotient and remainder being the exact ones.
C14_FormatUnitsExact ==
    (lib_fn = "format_units" /\ lib_ret.state # "pending") =>
        lib_ret = Returned(ExactUnits(lib_args[1], lib_args[2]))

\* what holds of format_units: the same, for the decimals whose power of ten
\* is an Amount
FormatUnitsExactInRange ==
    (/\ lib_fn = "format_units"
     /\ lib_ret.state # "pending"
     /\ PowerOfTenFits(lib_args[2])) =>
        lib_ret = Returned(ExactUnits(lib_args[1], lib_args[2]))

\* ------------------------------------------------------------------ C15
RECURSIVE DigitsValue(_)
DigitsValue(ds) ==
    IF ds = <<>> THEN 0
    ELSE 10 * DigitsValue(SubSeq(ds, 1, Len(ds) - 1))
            + (CHOOSE d \in 0..9 : DigitChars[d + 1] = ds[Len(ds)])

\* groups of three digits from the right, a separator between two groups
RECURSIVE GroupedFromRight(_)
GroupedFromRight(ds) ==
    IF Len(ds) <= 3 THEN ds
    ELSE GroupedFromRight(SubSeq(ds, 1, Len(ds) - 3)) \o <<",">>
            \o SubSeq(ds, Len(ds) - 2, Len(ds))

ExactHuman(value, decimals) ==
    LET wholeDigits == ExactWholeDigits(value, decimals)
        whole == DigitsValue(wholeDigits)
        shownLength ==
            IF whole >= 10000 THEN 0
            ELSE IF whole >= 100 THEN Min(2, decimals)
            ELSE IF whole >= 1 THEN Min(4, decimals)
            ELSE decimals
        shown == trim_end_matches(
                     SubSeq(ExactFractionDigits(value, decimals), 1,
                            shownLength), "0")
    IN  IF shown = <<>> THEN GroupedFromRight(wholeDigits)
        ELSE GroupedFromRight(wholeDigits) \o <<".">> \o shown

\* C15: format_units_human returns the exact whole part grouped by three
\* digits from the right and, after a '.', the first 0, 2, 4 or `decimals`
\* exact fraction digits (whole part >= 10000, >= 100, >= 1, = 0) without
\* their trailing zeros, and no '.' when none is left; a zero value gives "0".
C15_HumanTruncates ==
    (lib_fn = "format_units_human" /\ lib_ret.state # "pending") =>
        /\ lib_ret = Returned(ExactHuman(lib_args[1], lib_args[2]))
        /\ lib_args[1] = 0 => lib_ret.out = <<"0">>

\* what holds of format_units_human: the same, for the decimals whose power
\* of ten is an Amount
FormatHumanExactInRange ==
    (/\ lib_fn = "format_units_human"
     /\ lib_ret.state # "pending"
     /\ PowerOfTenFits(lib_args[2])) =>
        /\ lib_ret = Returned(ExactHuman(lib_args[1], lib_args[2]))
        /\ lib_args[1] = 0 => lib_ret.out = <<"0">>

\* ------------------------------------------------------------------ C16
\* the scheme kept, if any: the text before the first "://" of the part of
\* url in front of its query and fragment
SchemePrefix(url) ==
    LET base == BeforeFirst(url, {"?", "#"}) IN
    IF SchemeSeparators(base) = {} THEN <<>>
    ELSE SubSeq(base, 1, SetMin(SchemeSeparators(base)) + 2)

\* the authority: what follows the scheme, up to the first '/', '?' or '#'
Authority(url) ==
    BeforeFirst(SubSeq(url, Len(SchemePrefix(url)) + 1, Len(url)),
                {"/", "?", "#"})

\* the host[:port]: the authority without its userinfo
HostPort(url) == AfterLastAt(Authority(url))

\* C16: on its fallback path redact_rpc_url returns the scheme, if any, and
\* the host[:port] of the authority, and nothing of the userinfo, the path,
\* the query or the fragment.
C16_FallbackKeepsHostOnly ==
    (lib_fn = "redact_rpc_url" /\ lib_ret.state # "pending") =>
        lib_ret = Returned(SchemePrefix(lib_args) \o HostPort(lib_args))

\* what holds of the fallback: the same, when no '@' follows the first '/'
\* of the part in front of the query and the fragment
RedactFallbackWithoutAtInPath ==
    (/\ lib_fn = "redact_rpc_url"
     /\ lib_ret.state # "pending"
     /\ LET rest == SubSeq(lib_args, Len(SchemePrefix(lib_args)) + 1,
                           Len(lib_args))
            path == SubSeq(rest, Len(Authority(lib_args)) + 1, Len(rest))
        IN  "@" \notin Range(BeforeFirst(path, {"?", "#"}))) =>
        lib_ret = Returned(SchemePrefix(lib_args) \o HostPort(lib_args))

====
